---- MODULE Spec2Model ----
(***************************************************************************)
(* Telemarketing Analysis dashboard (src/app.py).                          *)
(*                                                                         *)
(* One render cycle of main() is modelled stage by stage: load_data, the   *)
(* sidebar form, the filter steps with the emptiness check, the export of  *)
(* the filtered table, the two value_counts distributions with their       *)
(* exports, and the charts.  Between cycles the user uploads a file,       *)
(* removes it or submits the filter form; every such event re-runs main(). *)
(* The page configuration, the title and the sidebar image (lines 57-73)   *)
(* touch nothing the pipeline reads and are left out.                      *)
(*                                                                         *)
(* A DataFrame is a record [columns, index, rows]: the column names, the   *)
(* row labels and the rows, position by position.  A missing cell (pandas  *)
(* NaN) is NA.  A float is an exact fraction <<numerator, denominator>> in *)
(* lowest terms.  An absent value (Python None, an unset local) is the     *)
(* empty sequence, a present value x is <<x>>.                             *)
(*                                                                         *)
(* Two specifications.  SpecCached is the program as written: load_data,   *)
(* multiselect_filter and to_excel are memoized by st.cache_data, keyed by *)
(* the value of their arguments, for the life of the server process.  Spec *)
(* is the same pipeline with the three decorators disabled, on a larger    *)
(* set of uploads and submissions.                                         *)
(***************************************************************************)
EXTENDS Integers, Sequences, FiniteSets, TLC

\* ------------------------------------------------------------------ bounds
\* Longest uploaded table, in rows.
MaxRows == 3
\* Most render cycles of one server process in the memoized specification.
MaxRuns == 4

\* ------------------------------------------------------------- input data
NA == "NA"
None == <<>>
Some(x) == <<x>>

\* The keys of the filtros dict, in insertion order.
FilterCols ==
    <<"job", "marital", "default", "housing", "loan", "contact", "month", "day_of_week">>

\* The columns of the uploaded bank marketing table this program reads.
BankColumns == <<"age">> \o FilterCols \o <<"y">>

\* Rows an uploaded table is made of.  The first two are the rows of the
\* scenario (age 25, admin, yes; age 60, blue-collar, no); the third has
\* empty cells in job, default and y.
AdminRow ==
    [age |-> 25, job |-> "admin", marital |-> "married", default |-> "no",
     housing |-> "yes", loan |-> "no", contact |-> "cellular", month |-> "may",
     day_of_week |-> "mon", y |-> "yes"]
BlueCollarRow ==
    [age |-> 60, job |-> "blue-collar", marital |-> "single", default |-> "no",
     housing |-> "no", loan |-> "yes", contact |-> "telephone", month |-> "jun",
     day_of_week |-> "tue", y |-> "no"]
MissingRow ==
    [age |-> 40, job |-> NA, marital |-> "married", default |-> NA,
     housing |-> "yes", loan |-> "no", contact |-> "telephone", month |-> "may",
     day_of_week |-> "mon", y |-> NA]
RowPool == {AdminRow, BlueCollarRow, MissingRow}

\* Slider positions the user is offered (the slider has step 1; these are the
\* positions the model tries).
AgeGrid == {25, 40, 60}

\* The multiselects the user changes; the others keep their default ['all'].
Pickers == {"job", "month"}

RowSeqs(n) == UNION {[1..k -> RowPool] : k \in 0..n}

\* Ascending order of the labels of y, as sort_index orders strings.
LabelOrder == <<"no", "yes">>

\* --------------------------------------------------------------- DataFrame
RECURSIVE RangeIndex(_)
RangeIndex(n) == IF n = 0 THEN <<>> ELSE Append(RangeIndex(n - 1), n - 1)

\* What read_csv / read_excel build from parsed rows: a RangeIndex 0..n-1.
DataFrame(cols, rows) == [columns |-> cols, index |-> RangeIndex(Len(rows)), rows |-> rows]

empty_is_none(df) == FALSE

\* DataFrame.empty
empty(df) == Len(df.rows) = 0 \/ Len(df.columns) = 0

\* DataFrame.copy()
copy(df) == df

RECURSIVE KeepPos(_, _, _)
KeepPos(seq, S, i) ==
    IF i > Len(seq) THEN <<>>
    ELSE (IF i \in S THEN <<seq[i]>> ELSE <<>>) \o KeepPos(seq, S, i + 1)

BoolIndex_shifted(df, S) ==
    [columns |-> df.columns,
     index   |-> KeepPos(df.index, {i + 1 : i \in S}, 1),
     rows    |-> KeepPos(df.rows, {i + 1 : i \in S}, 1)]

\* df[mask]: the rows at the positions of S, each with the label it had.
BoolIndex(df, S) ==
    [columns |-> df.columns, index |-> KeepPos(df.index, S, 1), rows |-> KeepPos(df.rows, S, 1)]

\* DataFrame.reset_index(drop=True)
reset_index(df) == [df EXCEPT !.index = RangeIndex(Len(df.rows))]

\* bank.query("age >= @idades[0] and age <= @idades[1]")
query(df, idades) ==
    BoolIndex(df, {i \in 1..Len(df.rows) :
                      df.rows[i].age >= idades[1] /\ df.rows[i].age <= idades[2]})

\* Series.isin(selected_values), as the set of positions that are True.
isin(df, column, selected_values) ==
    {i \in 1..Len(df.rows) : df.rows[i][column] \in selected_values}

multiselect_filter_noall(df, column, selected_values) ==
    reset_index(BoolIndex(df, isin(df, column, selected_values)))

multiselect_filter(df, column, selected_values) ==
    IF "all" \in selected_values
    THEN df
    ELSE reset_index(BoolIndex(df, isin(df, column, selected_values)))

\* bank[col].dropna().unique().tolist() followed by append('all'), as a set.
Options(df, col) ==
    {df.rows[i][col] : i \in {j \in 1..Len(df.rows) : df.rows[j][col] # NA}} \cup {"all"}

Min(S) == CHOOSE m \in S : \A n \in S : m <= n
Max(S) == CHOOSE m \in S : \A n \in S : m >= n
Ages(df) == {df.rows[i].age : i \in 1..Len(df.rows)}

\* ------------------------------------------------------------ value_counts
RECURSIVE GCD(_, _)
GCD(a, b) == IF b = 0 THEN a ELSE GCD(b, a % b)
Frac(n, d) == <<n \div GCD(n, d), d \div GCD(n, d)>>

Count(df, col, v) == Cardinality({i \in 1..Len(df.rows) : df.rows[i][col] = v})

\* The labels value_counts counts: dropna=True leaves the missing cells out.
Counted(df, col) == {i \in 1..Len(df.rows) : df.rows[i][col] # NA}

value_counts_perc_dropna_false(df) ==
    LET labels == KeepPos(LabelOrder, {k \in 1..Len(LabelOrder) : Count(df, "y", LabelOrder[k]) > 0}, 1)
    IN  [columns |-> <<"y">>,
         index   |-> labels,
         rows    |-> [k \in 1..Len(labels) |->
                         [y |-> Frac(100 * Count(df, "y", labels[k]), Len(df.rows))]]]

\* df.y.value_counts(normalize=True).sort_index().to_frame(name='y') * 100
value_counts_perc(df) ==
    LET total  == Cardinality(Counted(df, "y"))
        labels == KeepPos(LabelOrder, {k \in 1..Len(LabelOrder) : Count(df, "y", LabelOrder[k]) > 0}, 1)
    IN  [columns |-> <<"y">>,
         index   |-> labels,
         rows    |-> [k \in 1..Len(labels) |->
                         [y |-> Frac(100 * Count(df, "y", labels[k]), total)]]]

\* ---------------------------------------------------------------- to_excel
\* The sheet df.to_excel(writer, index=False, sheet_name='Sheet1') writes: a
\* header row of the column names and the cells, without the row labels.
to_excel(df) == [sheet |-> "Sheet1", header |-> df.columns, cells |-> df.rows]

\* ----------------------------------------------------------- uploaded file
\* An uploaded file: its name (stem and suffix, so that endswith is decided by
\* the suffix) and its bytes: the format they are in and the rows they hold.
UploadedFile(suffix, format, rows) ==
    [name |-> [stem |-> "bank", suffix |-> suffix], format |-> format, rows |-> rows]

endswith(name, s) == name.suffix = s

\* pd.read_csv(file, sep=';'): raises unless the bytes are delimited text.
read_csv(file) ==
    IF file.format = "csv" THEN Some(DataFrame(BankColumns, file.rows)) ELSE None

\* pd.read_excel(file): raises unless the bytes are a workbook.
read_excel(file) ==
    IF file.format = "xlsx" THEN Some(DataFrame(BankColumns, file.rows)) ELSE None

ErrFormat == "error: Formato de arquivo nao suportado. Envie um CSV ou Excel."
ErrLoad == "error: Erro ao carregar o arquivo"
WarnEmpty == "warning: Nenhum dado encontrado com os filtros selecionados."

load_data_csv_only(file) ==
    LET parsed == read_csv(file)
    IN  IF parsed = None
        THEN [data |-> None, msgs |-> {ErrLoad}]
        ELSE [data |-> parsed, msgs |-> {}]

\* load_data: the table, or None with the st.error it reported.
load_data(file) ==
    LET parsed == IF endswith(file.name, ".csv") THEN read_csv(file) ELSE read_excel(file)
    IN  IF ~endswith(file.name, ".csv") /\ ~endswith(file.name, ".xlsx")
        THEN [data |-> None, msgs |-> {ErrFormat}]
        ELSE IF parsed = None
             THEN [data |-> None, msgs |-> {ErrLoad}]
             ELSE [data |-> parsed, msgs |-> {}]

\* Files the user uploads: every delimited table of up to MaxRows rows under
\* a .csv name, and a few files of the other kinds.
Files ==
    {UploadedFile(".csv", "csv", r) : r \in RowSeqs(MaxRows)}
    \cup {UploadedFile(".xlsx", "xlsx", r) : r \in RowSeqs(1)}
    \cup {UploadedFile(".csv", "xlsx", r) : r \in RowSeqs(0)}
    \cup {UploadedFile(".xlsx", "garbage", r) : r \in RowSeqs(0)}
    \cup {UploadedFile(".CSV", "csv", r) : r \in RowSeqs(1)}

\* Files uploaded in the memoized specification.
CachedFiles ==
    {UploadedFile(".csv", "csv", <<AdminRow, BlueCollarRow>>),
     UploadedFile(".csv", "csv", <<AdminRow, MissingRow>>),
     UploadedFile(".csv", "xlsx", <<>>),
     UploadedFile(".CSV", "csv", <<AdminRow>>)}

\* --------------------------------------------------------- memoized calls
\* st.cache_data: the value stored under the call's arguments, or the body's
\* value, which is then stored.  A cache is a set of [key, val] entries.
HasKey(cache, key) == \E e \in cache : e.key = key
Lookup(cache, key) == (CHOOSE e \in cache : e.key = key).val

Memo(memo, cache, key, body) ==
    LET hit == memo /\ HasKey(cache, key)
    IN  [val   |-> IF hit THEN Lookup(cache, key) ELSE body,
         cache |-> IF memo /\ ~hit THEN cache \cup {[key |-> key, val |-> body]} ELSE cache]

LoadKey(file) == file
FilterKey_column_only(df, column, selected_values) == <<column, selected_values>>
FilterKey(df, column, selected_values) == <<df, column, selected_values>>
ExcelKey(df) == df

\* The loop over selections.items(): column k onwards, each call through the
\* cache of multiselect_filter.
RECURSIVE FilterLoop(_, _, _, _, _)
FilterLoop(memo, cache, df, selections, k) ==
    IF k > Len(FilterCols) THEN [val |-> df, cache |-> cache]
    ELSE LET col == FilterCols[k]
             r   == Memo(memo, cache, FilterKey(df, col, selections[col]),
                         multiselect_filter(df, col, selections[col]))
         IN  FilterLoop(memo, r.cache, r.val, selections, k + 1)

\* Lines 116-119: the age query, then the eight multiselect_filter calls.
FilterSteps(memo, cache, df, idades, selections) ==
    FilterLoop(memo, cache, query(df, idades), selections, 1)

\* ------------------------------------------------------------------ state
VARIABLES
    data_file,              \* st.sidebar.file_uploader's value: None or the file
    widgets,                \* the submitted form values; None: the defaults
    excel_ok,               \* whether pd.ExcelWriter / DataFrame.to_excel succeed here
    load_cache,             \* st.cache_data of load_data
    filter_cache,           \* st.cache_data of multiselect_filter
    excel_cache,            \* st.cache_data of to_excel
    runs,                   \* user events so far (counted where they are bounded)
    pc,                     \* where main() stands; "idle": waiting for the user
    reached,                \* the stages main() has entered in this render cycle
    bank_raw,               \* main's bank_raw
    bank,                   \* main's bank
    form,                   \* main's graph_type, idades, selections
    bank_raw_target_perc,   \* main's bank_raw_target_perc
    bank_target_perc,       \* main's bank_target_perc
    dist_inputs,            \* the tables value_counts was called on, in call order
    downloads,              \* the download buttons offered: file_name and data
    shown,                  \* the notices and headings written in this cycle
    charts,                 \* the panels drawn on the figure
    exc,                    \* the exception that ended main(), or None
    raw_seen                \* the raw distribution an earlier cycle showed for data_file

vars ==
    <<data_file, widgets, excel_ok, load_cache, filter_cache, excel_cache, runs, pc,
      reached, bank_raw, bank, form, bank_raw_target_perc, bank_target_perc,
      dist_inputs, downloads, shown, charts, exc, raw_seen>>

session == <<data_file, widgets, excel_ok, runs, raw_seen>>
caches == <<load_cache, filter_cache, excel_cache>>

ColSet == {FilterCols[k] : k \in 1..Len(FilterCols)}
DefaultSelections == [c \in ColSet |-> {"all"}]

\* The values st.slider and the multiselects have before any submission.
FormDefaults(df) ==
    [graph_type |-> "Barras",
     idades     |-> <<Min(Ages(df)), Max(Ages(df))>>,
     selections |-> DefaultSelections]

\* The ranges st.slider returns for df: min_age <= lo <= hi <= max_age.
SliderValues(df) ==
    LET positions == {a \in AgeGrid : a >= Min(Ages(df)) /\ a <= Max(Ages(df))}
    IN  {r \in positions \X positions : r[1] <= r[2]}

\* What the user can submit on the form rendered for df, whose controls show
\* the values cur: one control changed (the radio, the slider or one of the
\* multiselects of pickers), then Aplicar.  Any combination is a few
\* submissions away.
Submissions(df, cur, graphs, pickers) ==
    {[cur EXCEPT !.graph_type = g] : g \in graphs}
    \cup {[cur EXCEPT !.idades = r] : r \in SliderValues(df)}
    \cup UNION {{[cur EXCEPT !.selections[c] = v] : v \in SUBSET Options(df, c)} : c \in pickers}

Init ==
    /\ data_file = None
    /\ widgets = None
    /\ excel_ok \in BOOLEAN
    /\ load_cache = {}
    /\ filter_cache = {}
    /\ excel_cache = {}
    /\ runs = 0
    /\ pc = "start"
    /\ reached = {}
    /\ bank_raw = None
    /\ bank = None
    /\ form = None
    /\ bank_raw_target_perc = None
    /\ bank_target_perc = None
    /\ dist_inputs = <<>>
    /\ downloads = {}
    /\ shown = {}
    /\ charts = {}
    /\ exc = None
    /\ raw_seen = None

\* A rerun starts main() afresh: its locals and the page are cleared.
Rerun ==
    /\ pc' = "start"
    /\ reached' = {}
    /\ bank_raw' = None
    /\ bank' = None
    /\ form' = None
    /\ bank_raw_target_perc' = None
    /\ bank_target_perc' = None
    /\ dist_inputs' = <<>>
    /\ downloads' = {}
    /\ shown' = {}
    /\ charts' = {}
    /\ exc' = None

\* ------------------------------------------------------------- user events
Upload(files, bounded) ==
    /\ pc = "idle"
    /\ bounded => runs < MaxRuns
    /\ \E f \in files : data_file' = Some(f)
    /\ widgets' = None
    /\ raw_seen' = None
    /\ runs' = IF bounded THEN runs + 1 ELSE runs
    /\ Rerun
    /\ UNCHANGED <<excel_ok, caches>>

RemoveFile(bounded) ==
    /\ pc = "idle"
    /\ data_file # None
    /\ bounded => runs < MaxRuns
    /\ data_file' = None
    /\ widgets' = None
    /\ raw_seen' = None
    /\ runs' = IF bounded THEN runs + 1 ELSE runs
    /\ Rerun
    /\ UNCHANGED <<excel_ok, caches>>

\* The Aplicar button of the form the last cycle rendered.
Submit(graphs, pickers, bounded) ==
    /\ pc = "idle"
    /\ "form" \in reached
    /\ form # None
    /\ bounded => runs < MaxRuns
    /\ \E w \in Submissions(bank_raw[1], form[1], graphs, pickers) : widgets' = Some(w)
    /\ runs' = IF bounded THEN runs + 1 ELSE runs
    /\ Rerun
    /\ UNCHANGED <<data_file, excel_ok, raw_seen, caches>>

\* ------------------------------------------------------------ render cycle
\* Line 79 with no uploaded file: main() does nothing more.
StartNoFile ==
    /\ pc = "start"
    /\ data_file = None
    /\ pc' = "idle"
    /\ UNCHANGED <<session, caches, reached, bank_raw, bank, form, bank_raw_target_perc,
                   bank_target_perc, dist_inputs, downloads, shown, charts, exc>>

\* Lines 79-87: load_data, the return on None, the copy and the first table.
LoadStep(memo) ==
    /\ pc = "start"
    /\ data_file # None
    /\ LET r == Memo(memo, load_cache, LoadKey(data_file[1]), load_data(data_file[1]))
       IN  /\ load_cache' = r.cache
           /\ reached' = reached \cup {"load"}
           /\ bank_raw' = r.val.data
           /\ IF r.val.data = None
              THEN /\ bank' = None
                   /\ shown' = shown \cup r.val.msgs
                   /\ pc' = "idle"
              ELSE /\ bank' = Some(copy(r.val.data[1]))
                   /\ shown' = shown \cup r.val.msgs \cup {"## Antes dos filtros"}
                   /\ pc' = "form"
    /\ UNCHANGED <<session, filter_cache, excel_cache, form, bank_raw_target_perc,
                   bank_target_perc, dist_inputs, downloads, charts, exc>>

\* Lines 89-114: the sidebar form.  int(bank.age.min()) raises on a table
\* without rows, whose minimum is NaN.
FormStep ==
    /\ pc = "form"
    /\ reached' = reached \cup {"form"}
    /\ IF Len(bank[1].rows) = 0
       THEN /\ form' = None
            /\ exc' = Some([type |-> "ValueError", raised_by |-> "int", line |-> 93])
            /\ pc' = "idle"
       ELSE /\ form' = IF widgets = None THEN Some(FormDefaults(bank[1])) ELSE widgets
            /\ exc' = exc
            /\ pc' = "filter"
    /\ UNCHANGED <<session, caches, bank_raw, bank, bank_raw_target_perc, bank_target_perc,
                   dist_inputs, downloads, shown, charts>>

FilterStep_narrows_raw(memo) ==
    /\ pc = "filter"
    /\ LET r == FilterSteps(memo, filter_cache, bank[1], form[1].idades, form[1].selections)
       IN  /\ filter_cache' = r.cache
           /\ bank' = Some(r.val)
           /\ bank_raw' = Some(r.val)
           /\ reached' = reached \cup {"filter"}
           /\ IF empty(r.val)
              THEN /\ shown' = shown \cup {WarnEmpty}
                   /\ pc' = "idle"
              ELSE /\ shown' = shown
                   /\ pc' = "export"
    /\ UNCHANGED <<session, load_cache, excel_cache, form, bank_raw_target_perc,
                   bank_target_perc, dist_inputs, downloads, charts, exc>>

\* Lines 116-124: the filter steps and the check for an empty result.
FilterStep(memo) ==
    /\ pc = "filter"
    /\ LET r == FilterSteps(memo, filter_cache, bank[1], form[1].idades, form[1].selections)
       IN  /\ filter_cache' = r.cache
           /\ bank' = Some(r.val)
           /\ reached' = reached \cup {"filter"}
           /\ IF empty(r.val)
              THEN /\ shown' = shown \cup {WarnEmpty}
                   /\ pc' = "idle"
              ELSE /\ shown' = shown
                   /\ pc' = "export"
    /\ UNCHANGED <<session, load_cache, excel_cache, bank_raw, form, bank_raw_target_perc,
                   bank_target_perc, dist_inputs, downloads, charts, exc>>

\* One call of the memoized to_excel: the blob, or the exception of the
\* writer, which nothing catches and the cache does not store.
ExcelCall(memo, cache, df) ==
    IF (memo /\ HasKey(cache, ExcelKey(df))) \/ excel_ok
    THEN [ok |-> TRUE] @@ Memo(memo, cache, ExcelKey(df), to_excel(df))
    ELSE [ok |-> FALSE, val |-> None, cache |-> cache]

ExcelError(line) == Some([type |-> "Exception", raised_by |-> "to_excel", line |-> line])

\* Lines 126-132: the filtered table and its download button.
ExportStep(memo) ==
    /\ pc = "export"
    /\ reached' = reached \cup {"export"}
    /\ shown' = shown \cup {"## Apos os filtros"}
    /\ LET x == ExcelCall(memo, excel_cache, bank[1])
       IN  /\ excel_cache' = x.cache
           /\ IF x.ok
              THEN /\ downloads' = downloads \cup {[file_name |-> "bank_filtered.xlsx", data |-> x.val]}
                   /\ exc' = exc
                   /\ pc' = "aggregate"
              ELSE /\ downloads' = downloads
                   /\ exc' = ExcelError(130)
                   /\ pc' = "idle"
    /\ UNCHANGED <<session, load_cache, filter_cache, bank_raw, bank, form,
                   bank_raw_target_perc, bank_target_perc, dist_inputs, charts>>

AggregateStep_filtered_twice(memo) ==
    /\ pc = "aggregate"
    /\ reached' = reached \cup {"aggregate"}
    /\ LET raw_perc == value_counts_perc(bank[1])
           perc     == value_counts_perc(bank[1])
           x1       == ExcelCall(memo, excel_cache, raw_perc)
           x2       == ExcelCall(memo, x1.cache, perc)
           b1       == [file_name |-> "bank_raw_y.xlsx", data |-> x1.val]
           b2       == [file_name |-> "bank_y.xlsx", data |-> x2.val]
       IN  /\ bank_raw_target_perc' = Some(raw_perc)
           /\ bank_target_perc' = Some(perc)
           /\ dist_inputs' = dist_inputs \o <<bank[1], bank[1]>>
           /\ raw_seen' = IF raw_seen = None THEN Some(raw_perc) ELSE raw_seen
           /\ IF ~x1.ok
              THEN /\ excel_cache' = x1.cache
                   /\ shown' = shown \cup {"### Proporcao original"}
                   /\ downloads' = downloads
                   /\ exc' = ExcelError(141)
                   /\ pc' = "idle"
              ELSE IF ~x2.ok
              THEN /\ excel_cache' = x2.cache
                   /\ shown' = shown \cup {"### Proporcao original",
                                           "### Proporcao da tabela com filtros"}
                   /\ downloads' = downloads \cup {b1}
                   /\ exc' = ExcelError(145)
                   /\ pc' = "idle"
              ELSE /\ excel_cache' = x2.cache
                   /\ shown' = shown \cup {"### Proporcao original",
                                           "### Proporcao da tabela com filtros"}
                   /\ downloads' = downloads \cup {b1, b2}
                   /\ exc' = exc
                   /\ pc' = "chart"
    /\ UNCHANGED <<data_file, widgets, excel_ok, runs, load_cache, filter_cache, bank_raw,
                   bank, form, charts>>

\* Lines 134-145: the two distributions, their tables and download buttons.
AggregateStep(memo) ==
    /\ pc = "aggregate"
    /\ reached' = reached \cup {"aggregate"}
    /\ LET raw_perc == value_counts_perc(bank_raw[1])
           perc     == value_counts_perc(bank[1])
           x1       == ExcelCall(memo, excel_cache, raw_perc)
           x2       == ExcelCall(memo, x1.cache, perc)
           b1       == [file_name |-> "bank_raw_y.xlsx", data |-> x1.val]
           b2       == [file_name |-> "bank_y.xlsx", data |-> x2.val]
       IN  /\ bank_raw_target_perc' = Some(raw_perc)
           /\ bank_target_perc' = Some(perc)
           /\ dist_inputs' = dist_inputs \o <<bank_raw[1], bank[1]>>
           /\ raw_seen' = IF raw_seen = None THEN Some(raw_perc) ELSE raw_seen
           /\ IF ~x1.ok
              THEN /\ excel_cache' = x1.cache
                   /\ shown' = shown \cup {"### Proporcao original"}
                   /\ downloads' = downloads
                   /\ exc' = ExcelError(141)
                   /\ pc' = "idle"
              ELSE IF ~x2.ok
              THEN /\ excel_cache' = x2.cache
                   /\ shown' = shown \cup {"### Proporcao original",
                                           "### Proporcao da tabela com filtros"}
                   /\ downloads' = downloads \cup {b1}
                   /\ exc' = ExcelError(145)
                   /\ pc' = "idle"
              ELSE /\ excel_cache' = x2.cache
                   /\ shown' = shown \cup {"### Proporcao original",
                                           "### Proporcao da tabela com filtros"}
                   /\ downloads' = downloads \cup {b1, b2}
                   /\ exc' = exc
                   /\ pc' = "chart"
    /\ UNCHANGED <<data_file, widgets, excel_ok, runs, load_cache, filter_cache, bank_raw,
                   bank, form, charts>>

\* Lines 147-174: the figure.  Bar mode skips a panel whose distribution is
\* empty.  Pie mode plots both panels unguarded; whether DataFrame.plot raises
\* on an empty distribution depends on the plotting library, so both
\* outcomes are allowed.
ChartStep ==
    /\ pc = "chart"
    /\ reached' = reached \cup {"chart"}
    /\ LET raw_perc == bank_raw_target_perc[1]
           perc     == bank_target_perc[1]
       IN  IF form[1].graph_type = "Barras"
           THEN /\ charts' = {p \in {"Dados brutos", "Dados filtrados"} :
                                 \/ p = "Dados brutos" /\ ~empty(raw_perc)
                                 \/ p = "Dados filtrados" /\ ~empty(perc)}
                /\ shown' = shown \cup {"## Proporcao de aceite", "pyplot"}
                /\ exc' = exc
           ELSE \E raises \in {r \in BOOLEAN : r => empty(perc)} :
                  IF raises
                  THEN /\ charts' = IF empty(raw_perc) THEN {} ELSE {"Dados brutos"}
                       /\ shown' = shown \cup {"## Proporcao de aceite"}
                       /\ exc' = Some([type |-> "TypeError", raised_by |-> "plot",
                                       line |-> IF empty(raw_perc) THEN 166 ELSE 170])
                  ELSE /\ charts' = {"Dados brutos", "Dados filtrados"}
                       /\ shown' = shown \cup {"## Proporcao de aceite", "pyplot"}
                       /\ exc' = exc
    /\ pc' = "idle"
    /\ UNCHANGED <<session, caches, bank_raw, bank, form, bank_raw_target_perc,
                   bank_target_perc, dist_inputs, downloads>>

\* ---------------------------------------------------------- specifications
\* The render cycles with the three st.cache_data decorators disabled.
Next ==
    \/ Upload(Files, FALSE)
    \/ RemoveFile(FALSE)
    \/ Submit({"Barras", "Pizza"}, Pickers, FALSE)
    \/ StartNoFile
    \/ LoadStep(FALSE)
    \/ FormStep
    \/ FilterStep(FALSE)
    \/ ExportStep(FALSE)
    \/ AggregateStep(FALSE)
    \/ ChartStep

Spec == Init /\ [][Next]_vars

\* The program as written, every call of load_data, multiselect_filter and
\* to_excel going through its st.cache_data cache, which lives as long as the
\* server process: MaxRuns user events on a few files.
NextCached ==
    \/ Upload(CachedFiles, TRUE)
    \/ RemoveFile(TRUE)
    \/ Submit({"Barras"}, {"job"}, TRUE)
    \/ StartNoFile
    \/ LoadStep(TRUE)
    \/ FormStep
    \/ FilterStep(TRUE)
    \/ ExportStep(TRUE)
    \/ AggregateStep(TRUE)
    \/ ChartStep

SpecCached == Init /\ [][NextCached]_vars

\* ------------------------------------------------------------------ claims
\* The filter spec of the cycle, read off the claims: a row is kept when its
\* age is in the range and, column by column, the selection holds "all" or
\* the row's value.
Keeps(row, idades, selections) ==
    /\ idades[1] <= row.age
    /\ row.age <= idades[2]
    /\ \A c \in ColSet : "all" \in selections[c] \/ row[c] \in selections[c]

Kept(rows, idades, selections) ==
    LET Test(row) == Keeps(row, idades, selections) IN SelectSeq(rows, Test)

Filtered == "filter" \in reached

\* C1: once the filter steps have run, the filtered table holds exactly the
\* rows of the raw table, in their order, whose age is in the submitted range
\* and whose value in each of the eight columns is selected (or the column's
\* selection holds "all").
C1_FilteredRows ==
    Filtered =>
        /\ bank[1].rows = Kept(bank_raw[1].rows, form[1].idades, form[1].selections)
        /\ bank[1].columns = bank_raw[1].columns

C1_Witness ==
    /\ Filtered
    /\ "all" \notin form[1].selections["job"]
    /\ form[1].selections["job"] # {}
    /\ form[1].idades # <<Min(Ages(bank_raw[1])), Max(Ages(bank_raw[1]))>>
    /\ Len(bank[1].rows) >= 1
    /\ Len(bank[1].rows) < Len(bank_raw[1].rows)

\* C2: in a cycle whose filter spec excludes every row, the filtered table is
\* empty, the "no data" warning is shown and main() returns: no distribution,
\* no export blob, no download button, no chart.
C2_EmptyShortCircuits ==
    (Filtered /\ Kept(bank_raw[1].rows, form[1].idades, form[1].selections) = <<>>) =>
        /\ pc = "idle"
        /\ exc = None
        /\ empty(bank[1])
        /\ WarnEmpty \in shown
        /\ reached \cap {"export", "aggregate", "chart"} = {}
        /\ dist_inputs = <<>>
        /\ bank_raw_target_perc = None
        /\ bank_target_perc = None
        /\ downloads = {}
        /\ charts = {}
        /\ "pyplot" \notin shown

C2_Witness ==
    /\ Filtered
    /\ Len(bank_raw[1].rows) > 0
    /\ Kept(bank_raw[1].rows, form[1].idades, form[1].selections) = <<>>
    /\ WarnEmpty \in shown

\* The two ways a load fails, read off the claim.
UnsupportedName(file) == file.name.suffix \notin {".csv", ".xlsx"}
ParseRaises(file) ==
    \/ file.name.suffix = ".csv" /\ file.format # "csv"
    \/ file.name.suffix = ".xlsx" /\ file.format # "xlsx"

\* C3: when the uploaded file's name ends in neither .csv nor .xlsx, or its
\* parsing raises, load_data reports the error and yields no table, and
\* main() returns without entering any later stage.
C3_LoadFailureHalts ==
    (pc # "start" /\ data_file # None
        /\ (UnsupportedName(data_file[1]) \/ ParseRaises(data_file[1]))) =>
        /\ pc = "idle"
        /\ exc = None
        /\ bank_raw = None
        /\ bank = None
        /\ UnsupportedName(data_file[1]) => ErrFormat \in shown
        /\ ~UnsupportedName(data_file[1]) => ErrLoad \in shown
        /\ reached = {"load"}
        /\ form = None
        /\ dist_inputs = <<>>
        /\ downloads = {}
        /\ charts = {}
        /\ shown \subseteq {ErrFormat, ErrLoad}

C3_Witness ==
    /\ pc = "idle"
    /\ data_file # None
    /\ UnsupportedName(data_file[1])
    /\ data_file[1].format = "csv"
    /\ Len(data_file[1].rows) = 1
    /\ ErrFormat \in shown

\* Reading a distribution: its labels, and the sum of its shares.
Rank(label) == CHOOSE k \in 1..Len(LabelOrder) : LabelOrder[k] = label
Ascending(labels) == \A i, j \in 1..Len(labels) : i < j => Rank(labels[i]) < Rank(labels[j])
Present(df) == {df.rows[i].y : i \in 1..Len(df.rows)} \ {NA}
RowsWith(df, label) == Cardinality({i \in 1..Len(df.rows) : df.rows[i].y = label})
NonMissing(df) == Cardinality({i \in 1..Len(df.rows) : df.rows[i].y # NA})

RECURSIVE ShareSum(_, _)
ShareSum(perc, k) ==
    IF k = 0 THEN <<0, 1>>
    ELSE LET a == ShareSum(perc, k - 1)
             b == perc.rows[k].y
         IN  Frac(a[1] * b[2] + b[1] * a[2], a[2] * b[2])

\* perc is the distribution of df's y with every share taken over total rows.
IsDistribution(df, perc, total) ==
    /\ {perc.index[k] : k \in 1..Len(perc.index)} = Present(df)
    /\ Len(perc.index) = Cardinality(Present(df))
    /\ Len(perc.rows) = Len(perc.index)
    /\ Ascending(perc.index)
    /\ \A k \in 1..Len(perc.index) :
          perc.rows[k].y[1] * total = 100 * RowsWith(df, perc.index[k]) * perc.rows[k].y[2]

Shares(labels, values) ==
    [columns |-> <<"y">>, index |-> labels, rows |-> [k \in 1..Len(values) |-> [y |-> values[k]]]]

ScenarioRaw == DataFrame(BankColumns, <<AdminRow, BlueCollarRow>>)
ScenarioSelections == [DefaultSelections EXCEPT !["job"] = {"admin"}]
ScenarioFiltered == FilterSteps(FALSE, {}, copy(ScenarioRaw), <<20, 30>>, ScenarioSelections).val

\* The scenario: the two-row table filtered to ages 20-30 and job admin keeps
\* its first row; raw distribution {no: 50, yes: 50}, filtered {yes: 100}.
\* On the page the slider starts at the table's youngest age, 25.
Scenario ==
    /\ ScenarioFiltered.rows = <<AdminRow>>
    /\ value_counts_perc(ScenarioRaw) = Shares(<<"no", "yes">>, <<<<50, 1>>, <<50, 1>>>>)
    /\ value_counts_perc(ScenarioFiltered) = Shares(<<"yes">>, <<<<100, 1>>>>)
    /\ ("aggregate" \in reached /\ bank_raw[1] = ScenarioRaw
           /\ form[1].idades[2] < 60 /\ form[1].selections = ScenarioSelections) =>
        /\ bank[1].rows = <<AdminRow>>
        /\ bank_raw_target_perc[1] = Shares(<<"no", "yes">>, <<<<50, 1>>, <<50, 1>>>>)
        /\ bank_target_perc[1] = Shares(<<"yes">>, <<<<100, 1>>>>)

C5_Idempotent ==
    Filtered =>
        LET again == FilterSteps(FALSE, {}, bank[1], form[1].idades, form[1].selections).val
        IN  /\ again.rows = bank[1].rows
            /\ again.columns = bank[1].columns

C5_Witness ==
    /\ Filtered
    /\ Len(bank[1].rows) >= 1
    /\ Len(bank[1].rows) < Len(bank_raw[1].rows)
    /\ \E c \in ColSet : "all" \notin form[1].selections[c]

\* What main() writes on the page that is not a notice.
PageText ==
    {"## Antes dos filtros", "## Apos os filtros", "### Proporcao original",
     "### Proporcao da tabela com filtros", "## Proporcao de aceite", "pyplot"}

\* C6: when to_excel fails, the render cycle ends handled: no uncaught
\* exception, a notice on the page, and no download button for the failed
\* export.
C6_ExportErrorHandled ==
    (pc = "idle" /\ "export" \in reached /\ ~excel_ok) =>
        /\ exc = None
        /\ \E m \in shown : m \notin PageText
        /\ downloads = {}

\* C7: the filtered table's row labels are 0, 1, ..., n-1, whatever the range
\* and the selections.
C7_IndexRenumbered ==
    Filtered => bank[1].index = RangeIndex(Len(bank[1].rows))

\* C8 as stated: every finished render cycle has called the distribution
\* computation exactly twice, on the raw table and on the filtered table.
C8_TwiceEveryCycle ==
    pc = "idle" =>
        /\ Len(dist_inputs) = 2
        /\ bank_raw # None /\ dist_inputs[1] = bank_raw[1]
        /\ bank # None /\ dist_inputs[2] = bank[1]

\* C8 amended: a finished render cycle that got past the export of a
\* non-empty filtered table has called the distribution computation exactly
\* twice, first on the raw table, then on the filtered table; every other
\* cycle (no uploaded file, a failed load, a table without rows, an empty
\* filtered table, a failed export of the filtered table) has not called it.
C8_TwiceWhenAggregating ==
    pc = "idle" =>
        IF /\ data_file # None
           /\ load_data(data_file[1]).data # None
           /\ Len(data_file[1].rows) > 0
           /\ Kept(bank_raw[1].rows, form[1].idades, form[1].selections) # <<>>
           /\ excel_ok
        THEN dist_inputs = <<bank_raw[1], bank[1]>>
        ELSE dist_inputs = <<>>

C8_Witness ==
    /\ pc = "idle"
    /\ Len(dist_inputs) = 2
    /\ dist_inputs[1] # dist_inputs[2]
    /\ value_counts_perc(dist_inputs[1]) # value_counts_perc(dist_inputs[2])

\* C9: with the three caches on, every stage of every cycle has the value the
\* function bodies give for the cycle's own inputs: the loaded table and the
\* load errors, the filtered table, the distributions, the export contents
\* and the exception of a failed export.
C9_CachesTransparent ==
    /\ "load" \in reached =>
          /\ bank_raw = load_data(data_file[1]).data
          /\ shown \cap {ErrFormat, ErrLoad} = load_data(data_file[1]).msgs
    /\ Filtered =>
          bank[1] = FilterSteps(FALSE, {}, copy(bank_raw[1]),
                                form[1].idades, form[1].selections).val
    /\ "export" \in reached =>
          IF excel_ok
          THEN [file_name |-> "bank_filtered.xlsx", data |-> to_excel(bank[1])] \in downloads
          ELSE downloads = {} /\ exc = ExcelError(130)
    /\ "aggregate" \in reached =>
          /\ bank_raw_target_perc = Some(value_counts_perc(bank_raw[1]))
          /\ bank_target_perc = Some(value_counts_perc(bank[1]))
          /\ downloads =
                {[file_name |-> "bank_filtered.xlsx", data |-> to_excel(bank[1])],
                 [file_name |-> "bank_raw_y.xlsx", data |-> to_excel(bank_raw_target_perc[1])],
                 [file_name |-> "bank_y.xlsx", data |-> to_excel(bank_target_perc[1])]}
          /\ exc = None
    /\ (pc = "idle" /\ WarnEmpty \in shown) => empty(bank[1])

\* A cycle whose job filter finds, in the cache, an entry of the same column
\* and selection made for another table, with another result.
C9_Witness ==
    /\ pc = "idle"
    /\ "chart" \in reached
    /\ "all" \notin form[1].selections["job"]
    /\ \E e \in filter_cache :
          /\ e.key[2] = "job"
          /\ e.key[3] = form[1].selections["job"]
          /\ e.key[1] # query(bank_raw[1], form[1].idades)
          /\ e.val # bank[1]
    /\ \E e \in filter_cache :
          /\ e.key = <<query(bank_raw[1], form[1].idades), "job", form[1].selections["job"]>>
          /\ e.val = bank[1]

\* C10: the filter steps leave the raw table as load_data returned it, and
\* every cycle on the same upload that computes the raw distribution computes
\* the one the first such cycle showed.
C10_RawBaselineStable ==
    /\ bank_raw # None => bank_raw = load_data(data_file[1]).data
    /\ (bank_raw_target_perc # None /\ raw_seen # None) => bank_raw_target_perc = raw_seen

C10_Witness ==
    /\ pc = "idle"
    /\ "aggregate" \in reached
    /\ widgets # None
    /\ Len(bank[1].rows) < Len(bank_raw[1].rows)
    /\ bank_target_perc # bank_raw_target_perc
    /\ bank_raw_target_perc = raw_seen

====
